---- MODULE Spec2Model ----

(***************************************************************************)
(* Model of the complex spherical-harmonic routines of plotGWB/skymaps.py: *)
(* cmplx_map_2_full_alm, full_alm_2_cmplx_map, full_alm_2_Cl,              *)
(* cmplx_map_2_Cl, syn_full_alm and syn_cmplx_map.                         *)
(*                                                                         *)
(* Numbers.  A real number is an exact rational <<n, d>> in lowest terms   *)
(* with d > 0, and <<0, 0>> is NaN; a complex number is a pair <<re, im>>  *)
(* of such reals.  The arithmetic is exact: the rounding of IEEE doubles   *)
(* is not modelled.                                                        *)
(*                                                                         *)
(* Series.  A pandas Series over an (l, m) MultiIndex is a sequence of     *)
(* rows [l, m, v]: the row order is the positional order, the (l, m)       *)
(* fields are the index labels.  A numpy array is a plain sequence.        *)
(*                                                                         *)
(* healpy (hp.map2alm, hp.synalm, hp.alm2map) is an external library: what *)
(* it returns is an input of the actions, and what it is handed is         *)
(* recorded in the state.                                                  *)
(***************************************************************************)
EXTENDS Integers, Sequences, FiniteSets, TLC

VARIABLES
    op,         \* the function that returned last ("init" before any call)
    lmax,       \* the lmax in force inside the call
    residuals,  \* cmplx_map_2_full_alm: the complex map given
    real_map,   \* ... the masked map handed to hp.map2alm for the real part
    imag_map,   \* ... and for the imaginary part
    real_alm,   \* ... the half set hp.map2alm returned for real_map
    imag_alm,   \* ... and for imag_map
    Cls,        \* syn_full_alm: the spectrum given
    lmax_arg,   \* ... its lmax argument (None when omitted)
    almr,       \* ... the first half set hp.synalm returned
    almi,       \* ... the second one
    almp,       \* ... the positive-m assembly
    almn,       \* ... the negative-m assembly, before its m = 0 rows are dropped
    alm,        \* the full coefficient set: returned, or given to the next call
    re_alm,     \* full_alm_2_cmplx_map: the array handed to hp.alm2map for re_map
    im_alm,     \* ... and for im_map
    Cl,         \* full_alm_2_Cl: the spectrum returned
    err         \* "none", or the exception the call raised

vars == <<op, lmax, residuals, real_map, imag_map, real_alm, imag_alm,
          Cls, lmax_arg, almr, almi, almp, almn, alm, re_alm, im_alm, Cl, err>>

(***************************************************************************)
(* Bounds of the model.                                                    *)
(***************************************************************************)
MaxLmax == 2
NPix == 2

(***************************************************************************)
(* Exact arithmetic.                                                       *)
(***************************************************************************)
Abs(n) == IF n < 0 THEN -n ELSE n

RECURSIVE GCD(_, _)
GCD(a, b) == IF b = 0 THEN a ELSE GCD(b, a % b)

QNaN == <<0, 0>>

Norm(n, d) ==
    IF d = 0 THEN QNaN
    ELSE LET g == GCD(Abs(n), Abs(d))
             s == IF d < 0 THEN -1 ELSE 1
         IN  <<(s * n) \div g, (s * d) \div g>>

QInt(k) == <<k, 1>>
QAdd(x, y) == Norm(x[1] * y[2] + y[1] * x[2], x[2] * y[2])
QNeg(x) == <<-x[1], x[2]>>
QSub(x, y) == QAdd(x, QNeg(y))
QMul(x, y) == Norm(x[1] * y[1], x[2] * y[2])
QDivInt(x, k) == Norm(x[1], x[2] * k)
QNonNeg(x) == x[2] > 0 /\ x[1] >= 0

CNum(a, b) == <<QInt(a), QInt(b)>>
CZero == CNum(0, 0)
CNaN == <<QNaN, QNaN>>
CAdd(z, w) == <<QAdd(z[1], w[1]), QAdd(z[2], w[2])>>
CNeg(z) == <<QNeg(z[1]), QNeg(z[2])>>
CSub(z, w) == CAdd(z, CNeg(w))
CMul(z, w) == <<QSub(QMul(z[1], w[1]), QMul(z[2], w[2])),
                QAdd(QMul(z[1], w[2]), QMul(z[2], w[1]))>>
CConj(z) == <<z[1], QNeg(z[2])>>
CIsReal(z) == z[2] = QInt(0)

\* the Python literals 1j, 0.5 and 0.5j
OneJ == CNum(0, 1)
Half == <<<<1, 2>>, QInt(0)>>
HalfJ == <<QInt(0), <<1, 2>>>>

\* (-1)**m for an integer m
MinusOnePow(m) == IF Abs(m) % 2 = 0 THEN 1 ELSE -1

(***************************************************************************)
(* hp.Alm.getlm(lmax): the (l, m) of healpy's half set, m >= 0, ordered by *)
(* m ascending and by l ascending within m.                                *)
(***************************************************************************)
RECURSIVE getlm_from(_, _)
getlm_from(L, m0) ==
    IF m0 > L THEN <<>>
    ELSE [k \in 1..(L - m0 + 1) |-> <<m0 + k - 1, m0>>] \o getlm_from(L, m0 + 1)

\* the table of getlm for every lmax of the model
getlm_table == [L \in 0..MaxLmax |-> getlm_from(L, 0)]

getlm(L) == getlm_table[L]

(***************************************************************************)
(* pandas Series over an (l, m) index.                                     *)
(***************************************************************************)
Row(l, m, v) == [l |-> l, m |-> m, v |-> v]
Key(r) == <<r.l, r.m>>
\* a sequence built element by element, evaluated once
Arr(f) == f \o <<>>

Index(s) == Arr([i \in 1..Len(s) |-> Key(s[i])])
Values(s) == Arr([i \in 1..Len(s) |-> s[i].v])
Keys(s) == {Key(s[i]) : i \in 1..Len(s)}

\* pd.Series(data=..., index=...) with idx a sequence of <<l, m>>
Series(data, idx) == Arr([i \in 1..Len(idx) |-> Row(idx[i][1], idx[i][2], data[i])])

LessLM(a, b) == a.l < b.l \/ (a.l = b.l /\ a.m < b.m)
LessML(a, b) == a.m < b.m \/ (a.m = b.m /\ a.l < b.l)

\* sort_index(level='l') and sort_index(): by l, then by the remaining level m
sort_index_l(s) == SortSeq(s, LessLM)
\* sort_index(level='m'): by m, then by the remaining level l
sort_index_m(s) == SortSeq(s, LessML)

\* a variant of drop_m0 that drops nothing
drop_m0_kept(s) == s

\* drop(0, level='m')
drop_m0(s) == SelectSeq(s, LAMBDA r : r.m # 0)

\* the value at a label, fill when the label is absent
At(s, k, fill) ==
    IF k \in Keys(s) THEN s[CHOOSE i \in 1..Len(s) : Key(s[i]) = k].v ELSE fill

LessKey(a, b) == a[1] < b[1] \/ (a[1] = b[1] /\ a[2] < b[2])

\* the index an arithmetic operation aligns two differently indexed Series on:
\* the sorted union of their labels (every index here has unique labels)
UnionIndex(a, b) ==
    SortSeq(Index(a) \o SelectSeq(Index(b), LAMBDA k : k \notin Keys(a)), LessKey)

\* a + b on two Series: positional when the two indexes are identical,
\* otherwise aligned on the labels, NaN where a label is missing on one side
SeriesAdd(a, b) ==
    IF Index(a) = Index(b)
    THEN Arr([i \in 1..Len(a) |-> Row(a[i].l, a[i].m, CAdd(a[i].v, b[i].v))])
    ELSE LET U == UnionIndex(a, b)
         IN  Arr([i \in 1..Len(U) |->
                     Row(U[i][1], U[i][2], CAdd(At(a, U[i], CNaN), At(b, U[i], CNaN)))])

\* a.add(b, fill_value=fill): as a + b, a missing label counting as fill
SeriesAddFill(a, b, fill) ==
    IF Index(a) = Index(b)
    THEN Arr([i \in 1..Len(a) |-> Row(a[i].l, a[i].m, CAdd(a[i].v, b[i].v))])
    ELSE LET U == UnionIndex(a, b)
         IN  Arr([i \in 1..Len(U) |->
                     Row(U[i][1], U[i][2], CAdd(At(a, U[i], fill), At(b, U[i], fill)))])

\* scalar * Series, -Series, np.conj(Series), array * Series (positional)
SeriesScale(c, s) == Arr([i \in 1..Len(s) |-> Row(s[i].l, s[i].m, CMul(c, s[i].v))])
SeriesNeg(s) == Arr([i \in 1..Len(s) |-> Row(s[i].l, s[i].m, CNeg(s[i].v))])
SeriesConj(s) == Arr([i \in 1..Len(s) |-> Row(s[i].l, s[i].m, CConj(s[i].v))])
ArrayTimesSeries(arr, s) ==
    Arr([i \in 1..Len(s) |-> Row(s[i].l, s[i].m, CMul(CNum(arr[i], 0), s[i].v))])

\* s[mask] with a boolean numpy array: positional selection
BoolSelect(s, maskarr) ==
    LET Pos == SelectSeq([i \in 1..Len(s) |-> i], LAMBDA i : maskarr[i])
    IN  Arr([j \in 1..Len(Pos) |-> s[Pos[j]]])

(***************************************************************************)
(* cmplx_map_2_full_alm                                                    *)
(***************************************************************************)
\* a pixel component is a finite number x, NaN or an infinity
Fin(x) == [k |-> "fin", x |-> x]
NaNc == [k |-> "nan", x |-> 0]
Infc == [k |-> "inf", x |-> 0]

np_real(X) == [p \in 1..Len(X) |-> X[p][1]]
np_imag(X) == [p \in 1..Len(X) |-> X[p][2]]

\* a variant of np_isnan that flags every non-finite pixel
np_not_isfinite(X) == [p \in 1..Len(X) |-> X[p][1].k # "fin" \/ X[p][2].k # "fin"]

\* np.isnan of a complex array: NaN in the real or in the imaginary part
np_isnan(X) == [p \in 1..Len(X) |-> X[p][1].k = "nan" \/ X[p][2].k = "nan"]

\* hp.ma(data) followed by the assignment of .mask
masked_map(data, msk) == [data |-> data, mask |-> msk]

pos_lm_idx(L) == getlm(L)
neg_lm_idx(L) == Arr([i \in 1..Len(getlm(L)) |-> <<getlm(L)[i][1], -getlm(L)[i][2]>>])
sign(L) == Arr([i \in 1..Len(getlm(L)) |-> MinusOnePow(getlm(L)[i][2])])

alm_pos(half, L) == Series(half, pos_lm_idx(L))

\* a variant of alm_neg without the conjugation
alm_neg_noconj(half, L) ==
    LET sgn == sign(L)
    IN  drop_m0(Series([i \in 1..Len(half) |-> CMul(half[i], CNum(sgn[i], 0))],
                       neg_lm_idx(L)))

alm_neg(half, L) ==
    LET sgn == sign(L)
    IN  drop_m0(Series([i \in 1..Len(half) |-> CMul(CConj(half[i]), CNum(sgn[i], 0))],
                       neg_lm_idx(L)))

\* alm_real (from real_alm) and alm_imag (from imag_alm)
alm_component(half, L) == sort_index_l(alm_pos(half, L) \o alm_neg(half, L))

cmplx_map_2_full_alm(r_alm, i_alm, L) ==
    SeriesAdd(alm_component(r_alm, L), SeriesScale(OneJ, alm_component(i_alm, L)))

(***************************************************************************)
(* full_alm_2_cmplx_map: the two arrays handed to hp.alm2map               *)
(***************************************************************************)
m_values(a) == Arr([i \in 1..Len(a) |-> a[i].m])

alnegm(a) == sort_index_l(Arr([i \in 1..Len(a) |-> Row(a[i].l, -a[i].m, a[i].v)]))

\* (-1)**np.abs(m.values) * np.conj(alnegm): the sign array is in the row
\* order of the input, the Series in the sorted order of alnegm
signed_conj_alnegm(a) ==
    ArrayTimesSeries(Arr([i \in 1..Len(a) |-> MinusOnePow(Abs(m_values(a)[i]))]),
                     SeriesConj(alnegm(a)))

re_alm_series(a) == SeriesScale(Half, SeriesAdd(a, signed_conj_alnegm(a)))
\* a variant of im_alm_series with the sign of alm not flipped
im_alm_series_plus(a) == SeriesScale(HalfJ, SeriesAdd(a, signed_conj_alnegm(a)))

im_alm_series(a) == SeriesScale(HalfJ, SeriesAdd(SeriesNeg(a), signed_conj_alnegm(a)))

\* a variant of to_healpy that leaves the rows sorted by l
to_healpy_by_l(s, a) ==
    Values(sort_index_l(BoolSelect(s, Arr([i \in 1..Len(a) |-> m_values(a)[i] >= 0]))))

\* series[m >= 0].sort_index(level='m').values
to_healpy(s, a) ==
    Values(sort_index_m(BoolSelect(s, Arr([i \in 1..Len(a) |-> m_values(a)[i] >= 0]))))

full_alm_2_cmplx_map_re(a) == to_healpy(re_alm_series(a), a)
full_alm_2_cmplx_map_im(a) == to_healpy(im_alm_series(a), a)

(***************************************************************************)
(* full_alm_2_Cl                                                           *)
(***************************************************************************)
RECURSIVE SumC(_)
SumC(zs) == IF zs = <<>> THEN CZero ELSE CAdd(Head(zs), SumC(Tail(zs)))

\* the degrees of a Series, ascending: the index of a sum over level 'l'
Degrees(a) ==
    LET D == {a[i].l : i \in 1..Len(a)}
    IN  [k \in 1..Cardinality(D) |->
            CHOOSE l \in D : Cardinality({x \in D : x < l}) = k - 1]

\* a variant of sum_level_l that sums the rows of m >= 0 only
sum_level_l_half(a) ==
    LET prod == [i \in 1..Len(a) |-> Row(a[i].l, a[i].m, CMul(a[i].v, CConj(a[i].v)))]
        D == Degrees(a)
    IN  [k \in 1..Len(D) |->
            [l |-> D[k],
             v |-> SumC(Values(SelectSeq(prod, LAMBDA r : r.l = D[k] /\ r.m >= 0)))[1]]]

\* (alm*np.conj(alm)).sum(level='l').astype(float)
sum_level_l(a) ==
    LET prod == [i \in 1..Len(a) |-> Row(a[i].l, a[i].m, CMul(a[i].v, CConj(a[i].v)))]
        D == Degrees(a)
    IN  [k \in 1..Len(D) |->
            [l |-> D[k],
             v |-> SumC(Values(SelectSeq(prod, LAMBDA r : r.l = D[k])))[1]]]

full_alm_2_Cl(a) ==
    LET S == sum_level_l(a)
    IN  [k \in 1..Len(S) |-> [l |-> S[k].l, v |-> QDivInt(S[k].v, 2 * S[k].l + 1)]]

(***************************************************************************)
(* syn_full_alm                                                            *)
(***************************************************************************)
None == -1

syn_lmax(C, la) == IF la = None THEN Len(C) - 1 ELSE la

mpos_idx(L) == getlm(L)
mneg_idx(L) == Arr([i \in 1..Len(getlm(L)) |-> <<getlm(L)[i][1], -getlm(L)[i][2]>>])

\* a variant of syn_almp that adds the second half set without the factor 1j
syn_almp_no1j(r, s, L) == SeriesAdd(Series(r, mpos_idx(L)), Series(s, mpos_idx(L)))

syn_almp(r, s, L) ==
    SeriesAdd(Series(r, mpos_idx(L)), SeriesScale(OneJ, Series(s, mpos_idx(L))))

\* a variant of syn_almn without the conjugation
syn_almn_noconj(r, s, L) ==
    LET d == SeriesAdd(Series(r, mpos_idx(L)),
                       SeriesNeg(SeriesScale(OneJ, Series(s, mpos_idx(L)))))
        v == Values(ArrayTimesSeries(sign(L), d))
    IN  Series(v, mneg_idx(L))

syn_almn(r, s, L) ==
    LET d == SeriesAdd(Series(r, mpos_idx(L)),
                       SeriesNeg(SeriesScale(OneJ, Series(s, mpos_idx(L)))))
        v == Values(ArrayTimesSeries(sign(L), SeriesConj(d)))
    IN  Series(v, mneg_idx(L))

\* series.loc[0]: the rows of order m = 0, keyed by l
loc_m0(s) == SelectSeq(s, LAMBDA r : r.m = 0)

\* np.all(almn.loc[0] == almp.loc[0])
syn_assert(p, n) ==
    \A i \in 1..Len(loc_m0(p)) : loc_m0(n)[i].v = loc_m0(p)[i].v

\* almp.add(almn.drop(0, level='m'), fill_value=0j).swaplevel().sort_index(level='l')
syn_combine(p, n) == sort_index_l(SeriesAddFill(p, drop_m0(n), CZero))

\* a variant of syn_err that rejects a spectrum with a negative entry
syn_err_checked(C, p, n) ==
    IF \E i \in 1..Len(C) : C[i] < 0 THEN "SpectrumError"
    ELSE IF syn_assert(p, n) THEN "none" ELSE "AssertionError"

syn_err(C, p, n) == IF syn_assert(p, n) THEN "none" ELSE "AssertionError"

syn_full_alm(C, p, n) == IF syn_err(C, p, n) = "none" THEN syn_combine(p, n) ELSE <<>>

(***************************************************************************)
(* Inputs.                                                                 *)
(*                                                                         *)
(* A pair of half sets <<r, s>>, as healpy returns them (finite values in  *)
(* healpy's order, real at m = 0), is the all-zero pair with up to two of  *)
(* its real components set to +1 or -1.                                    *)
(***************************************************************************)
Units == {-1, 1}

HalfZero(L) == [i \in 1..Len(getlm(L)) |-> CZero]

\* <<which half set, position, real or imaginary part>>
HalfDofs(L) ==
    {d \in {1, 2} \X (1..Len(getlm(L))) \X {1, 2} : d[3] = 2 => getlm(L)[d[2]][2] > 0}

BumpPair(p, d, u) == [p EXCEPT ![d[1]][d[2]][d[3]] = QInt(u)]

BumpedPairs(S, L) == S \cup {BumpPair(p, d, u) : p \in S, d \in HalfDofs(L), u \in Units}

HalfPairs1(L) == BumpedPairs({<<HalfZero(L), HalfZero(L)>>}, L)
HalfPairs(L) == BumpedPairs(HalfPairs1(L), L)

\* maps: every pixel a pair <<real part, imaginary part>> of components
FiniteComps == {Fin(0), Fin(1)}
AllComps == FiniteComps \cup {NaNc, Infc}
UniformMaps == {[p \in 1..NPix |-> v] : v \in FiniteComps \X FiniteComps}
AllMaps == [1..NPix -> AllComps \X AllComps]

\* hp.map2alm is linear: a map whose unmasked pixels are all zero has the
\* all-zero half set; nothing else is assumed of what it returns
ZeroMap(mm) == \A p \in 1..Len(mm.data) : mm.mask[p] \/ mm.data[p] = Fin(0)

map2alm_pairs(X, L, S) ==
    {p \in S :
        /\ ZeroMap(masked_map(np_real(X), np_isnan(X))) => p[1] = HalfZero(L)
        /\ ZeroMap(masked_map(np_imag(X), np_isnan(X))) => p[2] = HalfZero(L)}

\* spectra: sequences of small integers, entries 0..lmax
ClVals == {-1, 0, 1}
UnitSpectra == {[i \in 1..n |-> 1] : n \in 1..(MaxLmax + 1)}
AllSpectra == UNION {[1..n -> ClVals] : n \in 1..(MaxLmax + 1)}
LmaxArgs == {None} \cup 0..MaxLmax

(***************************************************************************)
(* State machine: every action is one call, with its inputs.               *)
(***************************************************************************)
Init ==
    /\ op = "init"
    /\ lmax = 0
    /\ residuals = <<>> /\ real_map = <<>> /\ imag_map = <<>>
    /\ real_alm = <<>> /\ imag_alm = <<>>
    /\ Cls = <<>> /\ lmax_arg = None
    /\ almr = <<>> /\ almi = <<>> /\ almp = <<>> /\ almn = <<>>
    /\ alm = <<>> /\ re_alm = <<>> /\ im_alm = <<>> /\ Cl = <<>>
    /\ err = "none"

NoAnalysis ==
    /\ residuals' = <<>> /\ real_map' = <<>> /\ imag_map' = <<>>
    /\ real_alm' = <<>> /\ imag_alm' = <<>>

NoGenerator ==
    /\ Cls' = <<>> /\ lmax_arg' = None
    /\ almr' = <<>> /\ almi' = <<>> /\ almp' = <<>> /\ almn' = <<>>

\* cmplx_map_2_full_alm(X, L), hp.map2alm returning r and then s
Analysis(X, L, r, s) ==
    /\ lmax' = L
    /\ residuals' = X
    /\ real_map' = masked_map(np_real(X), np_isnan(X))
    /\ imag_map' = masked_map(np_imag(X), np_isnan(X))
    /\ real_alm' = r
    /\ imag_alm' = s
    /\ alm' = cmplx_map_2_full_alm(r, s, L)
    /\ err' = "none"
    /\ NoGenerator

\* syn_full_alm(C, la), hp.synalm returning r and then s
Generation(C, la, r, s) ==
    /\ lmax' = syn_lmax(C, la)
    /\ Cls' = C
    /\ lmax_arg' = la
    /\ almr' = r
    /\ almi' = s
    /\ almp' = syn_almp(r, s, syn_lmax(C, la))
    /\ almn' = syn_almn(r, s, syn_lmax(C, la))
    /\ err' = syn_err(C, almp', almn')
    /\ alm' = syn_full_alm(C, almp', almn')
    /\ NoAnalysis

\* full_alm_2_cmplx_map(a): what hp.alm2map is handed
Synthesis(a) ==
    /\ re_alm' = full_alm_2_cmplx_map_re(a)
    /\ im_alm' = full_alm_2_cmplx_map_im(a)

Call_cmplx_map_2_full_alm(X, L, r, s) ==
    /\ op = "init"
    /\ op' = "cmplx_map_2_full_alm"
    /\ Analysis(X, L, r, s)
    /\ re_alm' = <<>> /\ im_alm' = <<>> /\ Cl' = <<>>

Call_cmplx_map_2_Cl(X, L, r, s) ==
    /\ op = "init"
    /\ op' = "cmplx_map_2_Cl"
    /\ Analysis(X, L, r, s)
    /\ Cl' = full_alm_2_Cl(alm')
    /\ re_alm' = <<>> /\ im_alm' = <<>>

Call_syn_full_alm(C, la, r, s) ==
    /\ op = "init"
    /\ op' = "syn_full_alm"
    /\ Generation(C, la, r, s)
    /\ re_alm' = <<>> /\ im_alm' = <<>> /\ Cl' = <<>>

Call_syn_cmplx_map(C, la, r, s) ==
    /\ op = "init"
    /\ op' = "syn_cmplx_map"
    /\ Generation(C, la, r, s)
    /\ IF err' = "none" THEN Synthesis(alm') ELSE re_alm' = <<>> /\ im_alm' = <<>>
    /\ Cl' = <<>>

\* full_alm_2_cmplx_map(a)
Call_full_alm_2_cmplx_map(a) ==
    /\ op' = "full_alm_2_cmplx_map"
    /\ alm' = a
    /\ Synthesis(a)
    /\ UNCHANGED <<lmax, residuals, real_map, imag_map, real_alm, imag_alm,
                   Cls, lmax_arg, almr, almi, almp, almn, Cl, err>>

\* full_alm_2_Cl(a)
Call_full_alm_2_Cl(a) ==
    /\ op' = "full_alm_2_Cl"
    /\ alm' = a
    /\ Cl' = full_alm_2_Cl(a)
    /\ UNCHANGED <<lmax, residuals, real_map, imag_map, real_alm, imag_alm,
                   Cls, lmax_arg, almr, almi, almp, almn, re_alm, im_alm, err>>

(***************************************************************************)
(* Spec: analysis and generation over the pairs of half sets, followed by  *)
(* synthesis and extraction of what they return.                           *)
(***************************************************************************)
AnalyzeMap ==
    /\ op = "init"
    /\ \E L \in 0..MaxLmax, X \in UniformMaps :
           \E p \in map2alm_pairs(X, L, HalfPairs(L)) :
               Call_cmplx_map_2_full_alm(X, L, p[1], p[2])

AnalyzeMapCl ==
    /\ op = "init"
    /\ \E L \in 0..MaxLmax, X \in UniformMaps :
           \E p \in map2alm_pairs(X, L, HalfPairs1(L)) :
               Call_cmplx_map_2_Cl(X, L, p[1], p[2])

GenerateAlm ==
    /\ op = "init"
    /\ \E C \in UnitSpectra, la \in LmaxArgs :
           \E p \in HalfPairs(syn_lmax(C, la)) :
               Call_syn_full_alm(C, la, p[1], p[2])

GenerateMap ==
    /\ op = "init"
    /\ \E C \in UnitSpectra, la \in LmaxArgs :
           \E p \in HalfPairs1(syn_lmax(C, la)) :
               Call_syn_cmplx_map(C, la, p[1], p[2])

\* the round trip: synthesis of the set the analysis returned
SynthesizeMap ==
    /\ op = "cmplx_map_2_full_alm"
    /\ Call_full_alm_2_cmplx_map(alm)

ExtractCl ==
    /\ op = "cmplx_map_2_full_alm"
    /\ Call_full_alm_2_Cl(alm)

Next ==
    \/ AnalyzeMap
    \/ AnalyzeMapCl
    \/ GenerateAlm
    \/ GenerateMap
    \/ SynthesizeMap
    \/ ExtractCl

Spec == Init /\ [][Next]_vars

(***************************************************************************)
(* SpecMask: the analysis over every map, finite or not.                   *)
(***************************************************************************)
\* the all-zero pair and the pair whose two (0, 0) coefficients are 1
DCPairs(L) ==
    {<<HalfZero(L), HalfZero(L)>>,
     <<[HalfZero(L) EXCEPT ![1] = CNum(1, 0)], [HalfZero(L) EXCEPT ![1] = CNum(1, 0)]>>}

AnalyzeAnyMap ==
    /\ op = "init"
    /\ \E L \in 0..MaxLmax, X \in AllMaps :
           \E p \in map2alm_pairs(X, L, DCPairs(L)) :
               Call_cmplx_map_2_full_alm(X, L, p[1], p[2])

NextMask == AnalyzeAnyMap

SpecMask == Init /\ [][NextMask]_vars

(***************************************************************************)
(* SpecSpectrum: the generation over every spectrum, negative entries      *)
(* included.                                                               *)
(***************************************************************************)
GenerateAlmAnyCl ==
    /\ op = "init"
    /\ \E C \in AllSpectra, la \in LmaxArgs :
           \E p \in HalfPairs1(syn_lmax(C, la)) :
               Call_syn_full_alm(C, la, p[1], p[2])

GenerateMapAnyCl ==
    /\ op = "init"
    /\ \E C \in AllSpectra :
           \E p \in HalfPairs1(syn_lmax(C, None)) :
               Call_syn_cmplx_map(C, None, p[1], p[2])

NextSpectrum ==
    \/ GenerateAlmAnyCl
    \/ GenerateMapAnyCl

SpecSpectrum == Init /\ [][NextSpectrum]_vars

(***************************************************************************)
(* SpecFull: synthesis and extraction of full sets a caller supplies.      *)
(*                                                                         *)
(* A complete full set has every key |m| <= l <= L once; its values are    *)
(* all zero but for up to two real components set to +1 or -1.  Its rows   *)
(* are sorted by (l, m), or sorted but for two rows that are swapped.  A   *)
(* partial set keeps the rows of some degrees, of every m or of m >= 0.    *)
(***************************************************************************)
AllKeys(L) == {k \in (0..L) \X (-L..L) : Abs(k[2]) <= k[1]}

SortedKeys(K) ==
    [i \in 1..Cardinality(K) |->
        CHOOSE k \in K : Cardinality({x \in K : LessKey(x, k)}) = i - 1]

FullZero(L) ==
    LET K == SortedKeys(AllKeys(L))
    IN  [i \in 1..Len(K) |-> Row(K[i][1], K[i][2], CZero)]

BumpFull(a, i, c, u) == [a EXCEPT ![i].v[c] = QInt(u)]

BumpedFull(S, L) ==
    S \cup {BumpFull(a, i, c, u) : a \in S, i \in 1..((L + 1) * (L + 1)),
                                   c \in {1, 2}, u \in Units}

FullSets1(L) == BumpedFull({FullZero(L)}, L)
FullSets(L) == BumpedFull(FullSets1(L), L)

SwapRows(a, i, j) == [a EXCEPT ![i] = a[j], ![j] = a[i]]

SwappedSets(L) ==
    {SwapRows(a, i, j) : a \in FullSets1(L),
                         i \in 1..((L + 1) * (L + 1)), j \in 1..((L + 1) * (L + 1))}

PartialSets(L) ==
    {SelectSeq(a, LAMBDA r : r.l \in D /\ (h => r.m >= 0)) :
        a \in FullSets1(L), D \in SUBSET (0..L), h \in BOOLEAN}

SynthesizeGiven ==
    /\ op = "init"
    /\ \E L \in 0..MaxLmax :
           \E a \in FullSets(L) \cup SwappedSets(L) :
               Call_full_alm_2_cmplx_map(a)

ExtractGiven ==
    /\ op = "init"
    /\ \E L \in 0..MaxLmax :
           \E a \in FullSets(L) \cup SwappedSets(L) \cup PartialSets(L) :
               Call_full_alm_2_Cl(a)

NextFull ==
    \/ SynthesizeGiven
    \/ ExtractGiven

SpecFull == Init /\ [][NextFull]_vars

(***************************************************************************)
(* Properties.                                                             *)
(***************************************************************************)
AnalysisOps == {"cmplx_map_2_full_alm", "cmplx_map_2_Cl"}
GeneratorOps == {"syn_full_alm", "syn_cmplx_map"}

NoDuplicateKey(a) == \A i, j \in 1..Len(a) : i # j => Key(a[i]) # Key(a[j])
MaxDegree(a) == CHOOSE l \in {a[i].l : i \in 1..Len(a)} : \A i \in 1..Len(a) : a[i].l <= l
IsComplete(a) == a # <<>> /\ NoDuplicateKey(a) /\ Keys(a) = AllKeys(MaxDegree(a))
IsSorted(a) == \A i \in 1..(Len(a) - 1) : LessLM(a[i], a[i + 1])
Unmasked(mm) == \A p \in 1..Len(mm.mask) : ~mm.mask[p]
RealMap(X) == \A p \in 1..Len(X) : X[p][2] = Fin(0)
SignC(m) == CNum(MinusOnePow(m), 0)
HasNegative(C) == \E i \in 1..Len(C) : C[i] < 0

\* C1: round trip. After full_alm_2_cmplx_map is given the full set that
\* cmplx_map_2_full_alm built for an unmasked map, the array it hands to the
\* synthesis primitive for the real component is the half set the analysis
\* primitive returned for the real part, and the array for the imaginary
\* component is the half set returned for the imaginary part, entry for entry
\* in healpy's order.
C1_RoundTrip ==
    (op = "full_alm_2_cmplx_map" /\ residuals # <<>> /\ Unmasked(real_map))
        => (re_alm = real_alm /\ im_alm = imag_alm)

C1_Witness ==
    /\ op = "full_alm_2_cmplx_map"
    /\ residuals # <<>> /\ Unmasked(real_map)
    /\ lmax = MaxLmax
    /\ \E i \in 1..Len(real_alm) :
           /\ getlm(lmax)[i][2] > 0
           /\ ~CIsReal(real_alm[i])
           /\ imag_alm[i] # CZero

\* C2: conjugate symmetry. For a real-valued map (imaginary part identically
\* zero) the full set cmplx_map_2_full_alm returns has
\* a_{l,-m} = (-1)^m conj(a_{l,m}) for every l in 0..lmax and m in 0..l.
C2_ConjugateSymmetry ==
    (op \in AnalysisOps /\ RealMap(residuals))
        => \A l \in 0..lmax : \A m \in 0..l :
               At(alm, <<l, -m>>, CNaN) = CMul(SignC(m), CConj(At(alm, <<l, m>>, CNaN)))

C2_Witness ==
    /\ op = "cmplx_map_2_full_alm"
    /\ RealMap(residuals)
    /\ lmax = MaxLmax
    /\ \E i \in 1..Len(alm) : alm[i].m = 1 /\ ~CIsReal(alm[i].v)

\* C3: well-formed index. The full set returned by cmplx_map_2_full_alm and
\* the one returned by syn_full_alm hold every key (l, m) with 0 <= l <= lmax
\* and -l <= m <= l exactly once and no other key, (lmax+1)^2 rows in all,
\* where lmax is len(Cls) - 1 when syn_full_alm is not given one.
C3_FullIndex ==
    (op \in AnalysisOps \cup GeneratorOps /\ err = "none")
        => /\ NoDuplicateKey(alm)
           /\ Keys(alm) = AllKeys(lmax)
           /\ Len(alm) = (lmax + 1) * (lmax + 1)
           /\ (op \in GeneratorOps /\ lmax_arg = None) => lmax = Len(Cls) - 1
           /\ (op \in GeneratorOps /\ lmax_arg # None) => lmax = lmax_arg

C3_Witness ==
    /\ op = "syn_full_alm"
    /\ lmax_arg = None
    /\ Len(Cls) = MaxLmax + 1
    /\ Len(alm) = (MaxLmax + 1) * (MaxLmax + 1)
    /\ \E i \in 1..Len(alm) : alm[i].m = 0 /\ alm[i].v # CZero

\* C4: m = 0 consistency. In syn_full_alm the positive-m assembly and the
\* negative-m assembly have the same value at every (l, 0) before the
\* duplicate rows are dropped, and the assertion does not fail.
C4_M0Consistent ==
    op \in GeneratorOps
        => /\ \A i \in 1..Len(almp) : \A j \in 1..Len(almn) :
                  (almp[i].m = 0 /\ almn[j].m = 0 /\ almp[i].l = almn[j].l)
                      => almp[i].v = almn[j].v
           /\ err = "none"

C4_Witness ==
    /\ op = "syn_full_alm"
    /\ lmax = MaxLmax
    /\ \E i \in 1..Len(almr) :
           getlm(lmax)[i] = <<1, 0>> /\ almr[i] # CZero /\ almi[i] # CZero

\* C8: syn_full_alm combines the generator's half sets r and s as
\* cmplx_map_2_full_alm combines the analysis primitive's: key by key the two
\* full sets are equal, a_{l,m} = r_{l,m} + i s_{l,m} for m >= 0 and
\* a_{l,-m} = (-1)^m conj(r_{l,m} - i s_{l,m}) for m > 0.
C8_SameCombination ==
    (op \in GeneratorOps /\ err = "none")
        => LET analysed == cmplx_map_2_full_alm(almr, almi, lmax)
           IN  /\ Keys(alm) = Keys(analysed)
               /\ \A k \in Keys(alm) : At(alm, k, CNaN) = At(analysed, k, CNaN)
               /\ \A i \in 1..Len(almr) :
                      LET l == getlm(lmax)[i][1]
                          m == getlm(lmax)[i][2]
                      IN  /\ At(alm, <<l, m>>, CNaN) = CAdd(almr[i], CMul(OneJ, almi[i]))
                          /\ m > 0 => At(alm, <<l, -m>>, CNaN)
                                          = CMul(SignC(m),
                                                 CConj(CSub(almr[i], CMul(OneJ, almi[i]))))

C8_Witness ==
    /\ op = "syn_full_alm"
    /\ err = "none"
    /\ lmax = MaxLmax
    /\ \E i \in 1..Len(almr) :
           getlm(lmax)[i][2] = 1 /\ ~CIsReal(almr[i]) /\ almi[i] # CZero

\* the sum of |a_{l,m}|^2 over the rows of degree l, as re^2 + im^2
RECURSIVE SumAbs2(_, _)
SumAbs2(a, l) ==
    IF a = <<>> THEN QInt(0)
    ELSE LET z == Head(a).v
             t == IF Head(a).l = l
                  THEN QAdd(QMul(z[1], z[1]), QMul(z[2], z[2]))
                  ELSE QInt(0)
         IN  QAdd(t, SumAbs2(Tail(a), l))

\* C5: power spectrum. full_alm_2_Cl returns one entry per degree present in
\* the set, ascending, and none for an absent degree; (2l+1) Cl[l] is the sum
\* of |a_{l,m}|^2 over every m present for l; every Cl[l] is a non-negative
\* real; for the set {(0, 0)} it returns Cl[0] = |a_{0,0}|^2.
C5_PowerSpectrum ==
    op = "full_alm_2_Cl"
        => /\ {Cl[k].l : k \in 1..Len(Cl)} = {alm[i].l : i \in 1..Len(alm)}
           /\ \A j, k \in 1..Len(Cl) : j < k => Cl[j].l < Cl[k].l
           /\ \A k \in 1..Len(Cl) :
                  /\ QMul(QInt(2 * Cl[k].l + 1), Cl[k].v) = SumAbs2(alm, Cl[k].l)
                  /\ QNonNeg(Cl[k].v)
           /\ Index(alm) = <<(<<0, 0>>)>>
                  => Cl = <<[l |-> 0, v |-> SumAbs2(alm, 0)]>>

C5_Witness ==
    /\ op = "full_alm_2_Cl"
    /\ {alm[i].l : i \in 1..Len(alm)} = {0, 2}
    /\ \E i \in 1..Len(alm) : alm[i].m < 0 /\ alm[i].v # CZero
    /\ \E k \in 1..Len(Cl) : Cl[k].l = 2 /\ Cl[k].v = <<1, 5>>

\* C6, as claimed: a spectrum with a negative entry makes syn_full_alm and
\* syn_cmplx_map fail with SpectrumError, and no coefficient set is returned.
C6_NegativeRejected ==
    (op \in GeneratorOps /\ HasNegative(Cls))
        => (err = "SpectrumError" /\ alm = <<>>)

\* C6, amended: syn_full_alm does not look at the sign of the spectrum. With
\* a negative entry in Cls it raises no SpectrumError and returns the full
\* set assembled from the half sets the generator returned, like for any
\* other spectrum; syn_cmplx_map goes on to hand the two half sets to the
\* synthesis primitive.
C6_NegativeNotChecked ==
    (op \in GeneratorOps /\ HasNegative(Cls))
        => /\ err = "none"
           /\ Keys(alm) = AllKeys(lmax)
           /\ \A i \in 1..Len(almr) :
                  At(alm, getlm(lmax)[i], CNaN) = CAdd(almr[i], CMul(OneJ, almi[i]))
           /\ op = "syn_cmplx_map" => (re_alm = almr /\ im_alm = almi)

C6_Witness ==
    /\ op = "syn_full_alm"
    /\ Len(Cls) = MaxLmax + 1
    /\ \A i \in 1..Len(Cls) : Cls[i] < 0
    /\ \E i \in 1..Len(alm) : alm[i].v # CZero

NonFinite(c) == c.k # "fin"

\* C7, as claimed: a pixel is masked in the real-part map iff it is masked in
\* the imaginary-part map iff its value is not finite (NaN or infinite in its
\* real or imaginary part); the data of the two maps are the pixel's own real
\* and imaginary parts.
C7_MaskIffNonFinite ==
    op \in AnalysisOps
        => \A p \in 1..Len(residuals) :
               /\ real_map.mask[p] = imag_map.mask[p]
               /\ real_map.mask[p] <=> (NonFinite(residuals[p][1]) \/ NonFinite(residuals[p][2]))
               /\ real_map.data[p] = residuals[p][1]
               /\ imag_map.data[p] = residuals[p][2]

\* C7, amended: a pixel is masked in the real-part map iff it is masked in
\* the imaginary-part map iff its real or its imaginary part is NaN; every
\* other pixel, finite or infinite, is unmasked; the data of the two maps are
\* the pixel's own real and imaginary parts, masked or not.
C7_MaskIffNaN ==
    op \in AnalysisOps
        => \A p \in 1..Len(residuals) :
               /\ real_map.mask[p] = imag_map.mask[p]
               /\ real_map.mask[p] <=> (residuals[p][1] = NaNc \/ residuals[p][2] = NaNc)
               /\ real_map.data[p] = residuals[p][1]
               /\ imag_map.data[p] = residuals[p][2]

C7_Witness ==
    /\ op = "cmplx_map_2_full_alm"
    /\ \E p, q \in 1..Len(residuals) :
           /\ residuals[p] = <<Fin(1), NaNc>> /\ real_map.mask[p] /\ imag_map.mask[p]
           /\ residuals[q] = <<Infc, Fin(1)>> /\ ~real_map.mask[q] /\ ~imag_map.mask[q]
           /\ real_map.data[q] = Infc

\* C9: the split inverts the combination. For a complete full set a sorted
\* by (l, m), not assumed symmetric, the arrays re and im that
\* full_alm_2_cmplx_map derives satisfy, for every 0 <= m <= l:
\* 2 re_{l,m} = a_{l,m} + (-1)^m conj(a_{l,-m}),
\* 2 im_{l,m} = i (-a_{l,m} + (-1)^m conj(a_{l,-m})),
\* re_{l,m} + i im_{l,m} = a_{l,m},
\* (-1)^m conj(re_{l,m} - i im_{l,m}) = a_{l,-m},
\* and re_{l,0}, im_{l,0} are real.
C9_SplitInverts ==
    (op = "full_alm_2_cmplx_map" /\ IsComplete(alm) /\ IsSorted(alm))
        => LET L == MaxDegree(alm)
           IN  /\ Len(re_alm) = Len(getlm(L)) /\ Len(im_alm) = Len(getlm(L))
               /\ \A i \in 1..Len(getlm(L)) :
                      LET l == getlm(L)[i][1]
                          m == getlm(L)[i][2]
                          apos == At(alm, <<l, m>>, CNaN)
                          aneg == At(alm, <<l, -m>>, CNaN)
                          mir == CMul(SignC(m), CConj(aneg))
                      IN  /\ CMul(CNum(2, 0), re_alm[i]) = CAdd(apos, mir)
                          /\ CMul(CNum(2, 0), im_alm[i]) = CMul(OneJ, CAdd(CNeg(apos), mir))
                          /\ CAdd(re_alm[i], CMul(OneJ, im_alm[i])) = apos
                          /\ CMul(SignC(m), CConj(CSub(re_alm[i], CMul(OneJ, im_alm[i])))) = aneg
                          /\ m = 0 => (CIsReal(re_alm[i]) /\ CIsReal(im_alm[i]))

C9_Witness ==
    /\ op = "full_alm_2_cmplx_map"
    /\ IsComplete(alm) /\ IsSorted(alm)
    /\ MaxDegree(alm) = MaxLmax
    /\ At(alm, <<1, 1>>, CNaN) = CNum(1, 0)
    /\ At(alm, <<1, -1>>, CNaN) = CNum(1, 0)
    /\ \E i \in 1..Len(re_alm) : ~CIsReal(im_alm[i])

\* C10: row-order independence. For a complete full set whose rows are in
\* any order, full_alm_2_cmplx_map hands the synthesis primitive the two
\* arrays it hands it for the (l, m)-sorted ordering of the same set.
C10_RowOrderIndependent ==
    (op = "full_alm_2_cmplx_map" /\ IsComplete(alm))
        => /\ re_alm = full_alm_2_cmplx_map_re(sort_index_l(alm))
           /\ im_alm = full_alm_2_cmplx_map_im(sort_index_l(alm))
====
